---- MODULE Spec2Model ----
(***************************************************************************)
(* Model of the role-based DM scheduler bot (src/main.py).                 *)
(*                                                                         *)
(* The bot runs on one asyncio event loop.  Every command handler mutates  *)
(* the shared dictionaries `config` and `progress` synchronously and only  *)
(* then awaits its reply, so a handler is one atomic step.  The coroutine  *)
(* dm_scheduler is cut at its awaits (member.send, asyncio.sleep,          *)
(* fetch_channel, ch.send): each action below is the code that runs from   *)
(* the return of one await up to the next one.                             *)
(***************************************************************************)
EXTENDS Integers, Sequences, FiniteSets, TLC

\* ---------------------------------------------------------------- bounds
\* number of dm_scheduler tasks that can be alive at the same time
MaxTasks == 2
\* members of the target role (bots included)
NumMembers == 3
\* cap on total_sent (it grows without limit across runs)
MaxTotal == 2
\* members of the target role in the pacing specification
PacingMembers == 5
\* members of the target role in the estimate specification
EstimateMembers == 30
\* largest integer argument given to a command in the configuration
\* specification (the smallest is -1)
ArgMax == 2
\* tasks alive at the same time in the specification SpecSolo
SoloTasks == 1

\* ------------------------------------------------------ program constants
MaxAttemptsOneMore == 3 + 1
max_attempts == 3

\* member ids that are bot accounts (m.bot)
Bots == {2}
\* channel ids bot.get_channel finds in its cache; any other id needs fetch_channel
CachedChannels == {1}
\* guild / role ids that bot.get_guild / guild.get_role resolve
KnownGuilds == {1}
KnownRoles == {1}

VARIABLES
    config,        \* the in-memory config dict
    progress,      \* the in-memory progress dict
    stop_event,    \* asyncio.Event used to stop the loop
    templates,     \* data/templates.json: the template list
    disk,          \* data/config.json and data/progress.json as last written
    role_members,  \* role.members of the target role, in order
    task,          \* the dm_scheduler tasks created by startdm, by slot
    reply,         \* what the last step sent to the invoking channel ("" if nothing)
    posted,        \* the progress embed the last step handed to a channel, if any
    track,         \* which history is recorded: "" (none), "resume", "reset",
                   \* "crash" or "pacing"
    resume         \* history: recipients picked since the last start after a stop,
                   \* whether progress was reset since the last start, recipients
                   \* the cursor has passed (done) and those among them it had
                   \* passed when the process last died (sealed)

\* the slots a dm_scheduler task can occupy
Slots == DOMAIN task

vars == <<config, progress, stop_event, templates, disk, role_members, task, reply,
          posted, track, resume>>

DEFAULT_CONFIG ==
    [ guild_id |-> 0, target_role_id |-> 0, dm_delay_seconds |-> 5,
      batch_size |-> 25, batch_delay_seconds |-> 60, is_running |-> FALSE,
      progress_channel_id |-> 0, excluded_user_ids |-> <<>>,
      progress_every |-> 25, jitter_seconds |-> 2,
      \* keys the defaults do not have: "" and 0 stand for a missing key
      delivery_mode |-> "", delivery_channel_id |-> 0 ]

DEFAULT_PROGRESS == [ member_index |-> 0, total_sent |-> 0, last_progress_sent |-> 0 ]

\* a slot with no task in it
NoTask ==
    [ pc |-> "idle", members |-> <<>>, member_index |-> 0, sent_in_batch |-> 0,
      attempt |-> 0, sleep |-> 0,
      \* the call a delivery attempt makes ("" while none is going on)
      via |-> "",
      \* history fields, read by no action
      start_index |-> 0, nsend |-> 0, nbackoff |-> 0,
      stop_requested |-> FALSE, paced |-> 0 ]

InLoopPcs == {"send", "backoff", "auto_fetch", "auto_report", "delay", "batch"}
LivePcs == InLoopPcs \cup {"created", "final_fetch", "final_report"}

Range(s) == { s[i] : i \in 1..Len(s) }

RECURSIVE Pow2(_)
Pow2(n) == IF n <= 0 THEN 1 ELSE 2 * Pow2(n - 1)

RECURSIVE FilterSeq(_, _)
\* [m for m in s if not m.bot and m.id not in excluded]
FilterSeq(s, excluded) ==
    IF s = <<>> THEN <<>>
    ELSE LET m == Head(s)
             rest == FilterSeq(Tail(s), excluded)
         IN IF m \notin Bots /\ m \notin Range(excluded) THEN <<m>> \o rest ELSE rest

\* [m for m in role.members if not m.bot]
NonBots(s) == FilterSeq(s, <<>>)

full_batches_ceil(remaining, batch_size) == (remaining + batch_size - 1) \div batch_size
\* full_batches = remaining // batch_size
full_batches(remaining, batch_size) == remaining \div batch_size

\* _fmt_seconds: the parts of "{h}h {m}m {s}s", "{m}m {s}s" or "{s}s"
fmt_seconds(sec) ==
    LET h == sec \div 3600
        m == (sec % 3600) \div 60
        s == sec % 60
    IN IF h # 0 THEN <<[n |-> h, unit |-> "h"], [n |-> m, unit |-> "m"],
                       [n |-> s, unit |-> "s"]>>
       ELSE IF m # 0 THEN <<[n |-> m, unit |-> "m"], [n |-> s, unit |-> "s"]>>
       ELSE <<[n |-> s, unit |-> "s"]>>

\* build_progress_embed(guild, role); resolved: guild and role are both set
build_progress_embed(cfg, prog, role, resolved) ==
    LET total_members == IF resolved THEN Len(NonBots(role)) ELSE 0
        remaining == IF resolved /\ total_members - prog.member_index > 0
                     THEN total_members - prog.member_index ELSE 0
        est_seconds == IF remaining > 0
                       THEN remaining * cfg.dm_delay_seconds
                            + full_batches(remaining, cfg.batch_size)
                                  * cfg.batch_delay_seconds
                       ELSE 0
    IN [ status |-> IF cfg.is_running THEN "Running" ELSE "Stopped",
         member_index |-> prog.member_index, total_members |-> total_members,
         total_sent |-> prog.total_sent, remaining |-> remaining,
         est_seconds |-> est_seconds,
         est_str |-> IF remaining > 0 THEN fmt_seconds(est_seconds)
                     ELSE <<[n |-> 0, unit |-> "s"]>> ]

\* save_json(CONFIG_PATH, config) / save_json(PROGRESS_PATH, progress)
save_config(w) == [w EXCEPT !.disk.config = w.config]
save_progress(w) == [w EXCEPT !.disk.progress = w.progress]

\* the state one segment of dm_scheduler works on: the shared dicts, the files
\* and the task's own locals
World(t) == [ config |-> config, progress |-> progress, disk |-> disk,
              tk |-> task[t], role |-> role_members, emb |-> <<>>,
              picked |-> 0, pacing |-> (track = "pacing") ]

Commit(t, w) ==
    /\ config' = w.config
    /\ progress' = w.progress
    /\ disk' = w.disk
    /\ task' = [task EXCEPT ![t] = w.tk]
    /\ posted' = w.emb
    /\ track' = track
    /\ resume' = IF w.picked > 0 /\ resume.started
                 THEN [resume EXCEPT !.began[w.picked] =
                          IF @ >= 2 THEN 2 ELSE @ + 1]
                 ELSE IF /\ track = "crash"
                         /\ task[t].pc \in {"send", "backoff"}
                         /\ w.progress.member_index = task[t].member_index + 1
                 THEN [resume EXCEPT !.done =
                          @ \cup {task[t].members[task[t].member_index + 1]}]
                 ELSE resume

\* ------------------------------------------------------------ dm_scheduler
\* the coroutine returns: its frame is gone and the slot is free again
Finish(w) == [w EXCEPT !.tk = NoTask]

FinalCheckAlways(w, found) ==
    IF found
    THEN [w EXCEPT !.tk.pc = "final_report",
                   !.emb = <<build_progress_embed(w.config, w.progress, w.role, TRUE)>>]
    ELSE Finish(w)
\* "if ch:" of the final report, with ch resolved (found) or None
FinalCheck(w, found) ==
    IF found /\ w.progress.total_sent # w.progress.last_progress_sent
    THEN [w EXCEPT !.tk.pc = "final_report",      \* await ch.send(embed=emb)
                   !.emb = <<build_progress_embed(w.config, w.progress, w.role, TRUE)>>]
    ELSE Finish(w)

\* the code after the while loop, up to its first await; the locals of the
\* loop are dead from here on and are dropped
ExitLoop(w) ==
    LET w0 == [w EXCEPT !.tk = [NoTask EXCEPT !.pc = w.tk.pc]]
        w1 == save_config([w0 EXCEPT !.config.is_running = FALSE])
        chan_id == w1.config.progress_channel_id
    IN IF chan_id = 0 THEN Finish(w1)
       ELSE IF chan_id \in CachedChannels THEN FinalCheck(w1, TRUE)
       ELSE [w1 EXCEPT !.tk.pc = "final_fetch"]   \* await bot.fetch_channel

\* await asyncio.sleep(config.get("dm_delay_seconds", 5))
StartDelay(w) ==
    [w EXCEPT !.tk.pc = "delay", !.tk.sleep = w.config.dm_delay_seconds,
              !.tk.paced = IF w.pacing THEN @ + w.config.dm_delay_seconds ELSE @]

\* "if ch:" of the automatic progress update
AutoCheck(w, found) ==
    IF found /\ w.progress.total_sent # w.progress.last_progress_sent
    THEN [w EXCEPT !.tk.pc = "auto_report",       \* await ch.send(embed=emb)
                   !.emb = <<build_progress_embed(w.config, w.progress, w.role, TRUE)>>]
    ELSE StartDelay(w)

\* the trigger of the automatic progress update
ProgressTrigger(w) ==
    w.config.progress_every > 0
        /\ w.progress.total_sent % w.config.progress_every = 0

SameIndex(member_index) == member_index
\* member_index += 1
NextIndex(member_index) == member_index + 1

\* the recipient is done: advance and persist the cursor, count the batch,
\* evaluate the automatic progress update
Advance(w) ==
    LET i == NextIndex(w.tk.member_index)
        w1 == save_progress([w EXCEPT !.tk.member_index = i,
                                      !.progress.member_index = i])
        \* attempt and send_success are dead until the next iteration assigns
        \* them; the per-recipient history ends here
        w2 == [w1 EXCEPT !.tk.sent_in_batch = @ + 1, !.tk.attempt = 0,
                         !.tk.via = "", !.tk.nsend = 0, !.tk.nbackoff = 0]
        chan_id == w2.config.progress_channel_id
    IN IF ProgressTrigger(w2)
       THEN IF chan_id = 0 THEN StartDelay(w2)
            ELSE IF chan_id \in CachedChannels THEN AutoCheck(w2, TRUE)
            ELSE [w2 EXCEPT !.tk.pc = "auto_fetch"]   \* await bot.fetch_channel
       ELSE StartDelay(w2)

\* await member.send(message); delivery_mode is read into a local just before
\* the retry loop and used nowhere, the call is the same whatever it holds
TrySend(w) == [w EXCEPT !.tk.pc = "send", !.tk.via = "member.send",
                        !.tk.nsend = @ + 1]

RetryLoopAfterSuccess(w, send_success) ==
    IF w.tk.attempt < max_attempts THEN TrySend(w) ELSE Advance(w)
\* one more turn of "while attempt < max_attempts and not send_success"
RetryLoop(w, send_success) ==
    IF w.tk.attempt < max_attempts /\ ~send_success THEN TrySend(w) ELSE Advance(w)

\* the body of the main loop up to the first delivery attempt
BeginRecipient(w) ==
    RetryLoop([w EXCEPT !.tk.attempt = 0, !.tk.nsend = 0, !.tk.nbackoff = 0,
                        !.picked = w.tk.members[w.tk.member_index + 1]], FALSE)

\* "while member_index < len(members): if stop_event.is_set(): break"
LoopTop(w, stop) ==
    IF w.tk.member_index < Len(w.tk.members) /\ ~stop
    THEN BeginRecipient(w)
    ELSE ExitLoop(w)

\* the entry preconditions, the recipient list and the cursor
Setup(w, tpl, role, stop) ==
    IF w.config.guild_id = 0 \/ w.config.guild_id \notin KnownGuilds THEN Finish(w)
    ELSE IF w.config.target_role_id = 0 THEN Finish(w)
    ELSE IF w.config.target_role_id \notin KnownRoles THEN Finish(w)
    ELSE IF tpl = <<>> THEN Finish(w)
    ELSE LoopTop([w EXCEPT
                    !.tk.members = FilterSeq(role, w.config.excluded_user_ids),
                    !.tk.member_index = w.progress.member_index,
                    !.tk.start_index = IF w.pacing THEN w.progress.member_index ELSE 0,
                    !.tk.sent_in_batch = 0], stop)

\* the task created by startdm runs for the first time
TaskStart(t) ==
    /\ task[t].pc = "created"
    /\ Commit(t, Setup(World(t), templates, role_members, stop_event))
    /\ reply' = ""
    /\ UNCHANGED <<stop_event, templates, role_members>>

\* member.send returned: the message was delivered
SendDelivered(t) ==
    /\ task[t].pc = "send"
    /\ progress.total_sent < MaxTotal
    /\ LET w == World(t)
           w1 == [w EXCEPT !.progress.total_sent = @ + 1]
       IN Commit(t, RetryLoop(w1, TRUE))
    /\ reply' = ""
    /\ UNCHANGED <<stop_event, templates, role_members>>

\* member.send raised discord.Forbidden
SendForbidden(t) ==
    /\ task[t].pc = "send"
    /\ Commit(t, RetryLoop(World(t), TRUE))
    /\ reply' = ""
    /\ UNCHANGED <<stop_event, templates, role_members>>

\* member.send raised discord.HTTPException: count the attempt and back off
SendFailed(t) ==
    /\ task[t].pc = "send"
    /\ \E jitter \in 0..config.jitter_seconds :
         LET w == World(t)
             attempt == w.tk.attempt + 1
             backoff == Pow2(attempt)
         IN Commit(t, [w EXCEPT !.tk.attempt = attempt, !.tk.pc = "backoff",
                                !.tk.sleep = backoff + jitter,
                                !.tk.nbackoff = @ + 1])
    /\ reply' = ""
    /\ UNCHANGED <<stop_event, templates, role_members>>

\* the backoff sleep is over
BackoffReturn(t) ==
    /\ task[t].pc = "backoff"
    /\ LET w == [World(t) EXCEPT !.tk.sleep = 0]
       IN Commit(t, RetryLoop(w, w.tk.attempt >= max_attempts))
    /\ reply' = ""
    /\ UNCHANGED <<stop_event, templates, role_members>>

\* bot.fetch_channel returned the channel (found) or raised (not found)
AutoFetchReturn(t, found) ==
    /\ task[t].pc = "auto_fetch"
    /\ Commit(t, AutoCheck(World(t), found))
    /\ reply' = ""
    /\ UNCHANGED <<stop_event, templates, role_members>>

\* ch.send(embed=emb) of the automatic update returned (sent) or raised
AutoReportReturn(t, sent) ==
    /\ task[t].pc = "auto_report"
    /\ LET w == World(t)
           w1 == IF sent
                 THEN save_progress([w EXCEPT !.progress.last_progress_sent =
                                                  w.progress.total_sent])
                 ELSE w
       IN Commit(t, StartDelay(w1))
    /\ reply' = ""
    /\ UNCHANGED <<stop_event, templates, role_members>>

BatchFullStrict(tk, cfg) == tk.sent_in_batch > cfg.batch_size
\* "if sent_in_batch >= config.get("batch_size", 25)"
BatchFull(tk, cfg) == tk.sent_in_batch >= cfg.batch_size

\* the per-message sleep is over: batch handling, then the next iteration
DelayReturn(t) ==
    /\ task[t].pc = "delay"
    /\ LET w == [World(t) EXCEPT !.tk.sleep = 0]
       IN IF BatchFull(w.tk, w.config)
          THEN Commit(t, [w EXCEPT !.tk.sent_in_batch = 0, !.tk.pc = "batch",
                                   !.tk.sleep = w.config.batch_delay_seconds,
                                   !.tk.paced = IF w.pacing
                                                THEN @ + w.config.batch_delay_seconds
                                                ELSE @])
          ELSE Commit(t, LoopTop(w, stop_event))
    /\ reply' = ""
    /\ UNCHANGED <<stop_event, templates, role_members>>

\* the batch pause is over: the next iteration
BatchReturn(t) ==
    /\ task[t].pc = "batch"
    /\ Commit(t, LoopTop([World(t) EXCEPT !.tk.sleep = 0], stop_event))
    /\ reply' = ""
    /\ UNCHANGED <<stop_event, templates, role_members>>

FinalFetchReturn(t, found) ==
    /\ task[t].pc = "final_fetch"
    /\ Commit(t, FinalCheck(World(t), found))
    /\ reply' = ""
    /\ UNCHANGED <<stop_event, templates, role_members>>

FinalReportReturn(t, sent) ==
    /\ task[t].pc = "final_report"
    /\ LET w == World(t)
           w1 == IF sent
                 THEN save_progress([w EXCEPT !.progress.last_progress_sent =
                                                  w.progress.total_sent])
                 ELSE w
       IN Commit(t, Finish(w1))
    /\ reply' = ""
    /\ UNCHANGED <<stop_event, templates, role_members>>

\* ---------------------------------------------------------------- commands
FreeSlots == { t \in Slots : task[t].pc = "idle" }

startdm_rejects_never(cfg) == FALSE
\* "if config.get("is_running"):" of startdm
startdm_rejects(cfg) == cfg.is_running

StartDm ==
    IF startdm_rejects(config)
    THEN /\ reply' = "DM process already running"
         /\ posted' = <<>>
         /\ UNCHANGED <<config, progress, stop_event, templates, disk,
                        role_members, task, track, resume>>
    ELSE /\ FreeSlots # {}
         /\ LET t == CHOOSE s \in FreeSlots : \A u \in FreeSlots : s <= u
                cfg == [config EXCEPT !.is_running = TRUE]
            IN /\ stop_event' = FALSE
               /\ config' = cfg
               /\ disk' = [disk EXCEPT !.config = cfg]
               /\ task' = [task EXCEPT ![t] = [NoTask EXCEPT !.pc = "created"]]
         /\ resume' = IF track = "resume" /\ resume.stopped
                      THEN [resume EXCEPT
                              !.stopped = FALSE, !.started = TRUE,
                              !.k = progress.member_index,
                              !.began = [m \in DOMAIN resume.began |-> 0]]
                      ELSE [resume EXCEPT !.reset = FALSE]
         /\ reply' = "DM sending started"
         /\ posted' = <<>>
         /\ UNCHANGED <<progress, templates, role_members, track>>

StopDm ==
    LET cfg == [config EXCEPT !.is_running = FALSE]
    IN /\ stop_event' = TRUE
       /\ config' = cfg
       /\ disk' = [disk EXCEPT !.config = cfg]
       /\ reply' = "DM sending stopped"
       /\ posted' = <<>>
       /\ task' = [t \in Slots |->
                     IF task[t].pc \in InLoopPcs
                     THEN [task[t] EXCEPT !.stop_requested = TRUE] ELSE task[t]]
       /\ resume' = IF track = "resume" /\ \E t \in Slots : task[t].pc \in InLoopPcs
                    THEN [resume EXCEPT !.stopped = TRUE, !.started = FALSE]
                    ELSE resume
       /\ UNCHANGED <<progress, templates, role_members, track>>

ResetProgress ==
    LET cfg == [config EXCEPT !.is_running = FALSE]
        prog == [progress EXCEPT !.member_index = 0, !.total_sent = 0]
    IN /\ stop_event' = TRUE
       /\ config' = cfg
       /\ progress' = prog
       /\ disk' = [config |-> cfg, progress |-> prog]
       /\ reply' = "Progress has been reset."
       /\ posted' = <<>>
       /\ resume' = [resume EXCEPT !.stopped = FALSE, !.started = FALSE,
                                   !.reset = (track = "reset")]
       /\ UNCHANGED <<templates, role_members, task, track>>

SetRole(role) ==
    LET cfg == [config EXCEPT !.target_role_id = role]
        prog == [progress EXCEPT !.member_index = 0]
    IN /\ config' = cfg
       /\ progress' = prog
       /\ disk' = [config |-> cfg, progress |-> prog]
       /\ reply' = "Target role set"
       /\ posted' = <<>>
       /\ resume' = [resume EXCEPT !.stopped = FALSE, !.started = FALSE]
       /\ UNCHANGED <<stop_event, templates, role_members, task, track>>

py_max_second(a, b) == b
\* max(a, b)
py_max(a, b) == IF b > a THEN b ELSE a

\* setdelay <seconds>
SetDelay(seconds) ==
    LET cfg == [config EXCEPT !.dm_delay_seconds = py_max(1, seconds)]
    IN /\ config' = cfg
       /\ disk' = [disk EXCEPT !.config = cfg]
       /\ reply' = "DM delay set"
       /\ posted' = <<>>
       /\ UNCHANGED <<progress, stop_event, templates, role_members, task,
                      track, resume>>

\* setbatch <size> [delay]; given: the optional delay is there
SetBatch(size, delay, given) ==
    LET d == IF given THEN delay ELSE config.batch_delay_seconds
        cfg == [config EXCEPT !.batch_size = py_max(1, size),
                              !.batch_delay_seconds = py_max(0, d)]
    IN /\ config' = cfg
       /\ disk' = [disk EXCEPT !.config = cfg]
       /\ reply' = "Batch settings updated"
       /\ posted' = <<>>
       /\ UNCHANGED <<progress, stop_event, templates, role_members, task,
                      track, resume>>

\* setprogressinterval <count>
SetProgressInterval(count) ==
    IF count < 1
    THEN /\ reply' = "Interval must be at least 1"
         /\ posted' = <<>>
         /\ UNCHANGED <<config, progress, stop_event, templates, disk,
                        role_members, task, track, resume>>
    ELSE LET cfg == [config EXCEPT !.progress_every = count]
         IN /\ config' = cfg
            /\ disk' = [disk EXCEPT !.config = cfg]
            /\ reply' = "Automatic progress interval set"
            /\ posted' = <<>>
            /\ UNCHANGED <<progress, stop_event, templates, role_members, task,
                           track, resume>>

\* setjitter <seconds>
SetJitter(seconds) ==
    LET cfg == [config EXCEPT !.jitter_seconds = py_max(0, seconds)]
    IN /\ config' = cfg
       /\ disk' = [disk EXCEPT !.config = cfg]
       /\ reply' = "Jitter seconds set"
       /\ posted' = <<>>
       /\ UNCHANGED <<progress, stop_event, templates, role_members, task,
                      track, resume>>

\* setdeliverymode <mode>
SetDeliveryMode(mode) ==
    IF mode \notin {"dm", "channel"}
    THEN /\ reply' = "Mode must be 'dm' or 'channel'"
         /\ posted' = <<>>
         /\ UNCHANGED <<config, progress, stop_event, templates, disk,
                        role_members, task, track, resume>>
    ELSE LET cfg == [config EXCEPT !.delivery_mode = mode]
         IN /\ config' = cfg
            /\ disk' = [disk EXCEPT !.config = cfg]
            /\ reply' = "Delivery mode set"
            /\ posted' = <<>>
            /\ UNCHANGED <<progress, stop_event, templates, role_members, task,
                           track, resume>>

\* setdeliverychannel #channel
SetDeliveryChannel(channel) ==
    LET cfg == [config EXCEPT !.delivery_channel_id = channel]
    IN /\ config' = cfg
       /\ disk' = [disk EXCEPT !.config = cfg]
       /\ reply' = "Delivery channel set"
       /\ posted' = <<>>
       /\ UNCHANGED <<progress, stop_event, templates, role_members, task,
                      track, resume>>

AddExclude(user_id) ==
    IF user_id \in Range(config.excluded_user_ids)
    THEN /\ reply' = "User already excluded."
         /\ posted' = <<>>
         /\ UNCHANGED <<config, progress, stop_event, templates, disk,
                        role_members, task, track, resume>>
    ELSE LET cfg == [config EXCEPT !.excluded_user_ids = Append(@, user_id)]
         IN /\ config' = cfg
            /\ disk' = [disk EXCEPT !.config = cfg]
            /\ reply' = "Excluded user ID"
            /\ posted' = <<>>
            /\ UNCHANGED <<progress, stop_event, templates, role_members, task,
                           track, resume>>

RECURSIVE list_remove(_, _)
\* list.remove(x): drops the first occurrence
list_remove(s, x) ==
    IF s = <<>> THEN <<>>
    ELSE IF Head(s) = x THEN Tail(s) ELSE <<Head(s)>> \o list_remove(Tail(s), x)

RemoveExclude(user_id) ==
    IF user_id \notin Range(config.excluded_user_ids)
    THEN /\ reply' = "User ID not in exclude list."
         /\ posted' = <<>>
         /\ UNCHANGED <<config, progress, stop_event, templates, disk,
                        role_members, task, track, resume>>
    ELSE LET cfg == [config EXCEPT !.excluded_user_ids = list_remove(@, user_id)]
         IN /\ config' = cfg
            /\ disk' = [disk EXCEPT !.config = cfg]
            /\ reply' = "Removed exclude"
            /\ posted' = <<>>
            /\ UNCHANGED <<progress, stop_event, templates, role_members, task,
                           track, resume>>

\* the process dies and is started again: every task is gone, the event is a
\* new one, config and progress are what the files hold
CrashRestart ==
    /\ config' = disk.config
    /\ progress' = disk.progress
    /\ stop_event' = FALSE
    /\ task' = [t \in Slots |-> NoTask]
    /\ reply' = ""
    /\ posted' = <<>>
    /\ resume' = IF track = "crash" THEN [resume EXCEPT !.sealed = resume.done]
                 ELSE resume
    /\ UNCHANGED <<templates, disk, role_members, track>>

\* sendprogress [#channel] (channel = 0: no argument): posts the embed to the
\* given channel, or to the configured one when bot.get_channel finds it;
\* touches neither config nor progress
SendProgress(channel) ==
    /\ IF channel # 0 \/ config.progress_channel_id \in CachedChannels
       THEN /\ reply' = "embed posted"
            /\ posted' = <<build_progress_embed(config, progress, role_members,
                               /\ config.guild_id \in KnownGuilds
                               /\ config.target_role_id \in KnownRoles)>>
       ELSE /\ reply' = "No progress channel provided or configured."
            /\ posted' = <<>>
    /\ UNCHANGED <<config, progress, stop_event, templates, disk,
                   role_members, task, track, resume>>

\* ---------------------------------------------------------- specifications
InitFull(cfg, prog, tpl, role, history, ntasks) ==
    /\ config = cfg
    /\ progress = prog
    /\ stop_event = FALSE
    /\ templates = tpl
    /\ disk = [config |-> cfg, progress |-> prog]
    /\ role_members = role
    /\ task = [t \in 1..ntasks |-> NoTask]
    /\ reply = ""
    /\ posted = <<>>
    /\ track = history
    /\ resume = [stopped |-> FALSE, started |-> FALSE, k |-> 0,
                 began |-> [m \in Range(role) |-> 0], reset |-> FALSE,
                 done |-> {}, sealed |-> {}]

InitWith(cfg, prog, role, history, ntasks) ==
    InitFull(cfg, prog, <<1>>, role, history, ntasks)

\* a bot that has been configured: guild, role and a template are set and the
\* pacing parameters are small
SmallConfig(chan) ==
    [DEFAULT_CONFIG EXCEPT !.guild_id = 1, !.target_role_id = 1,
                           !.dm_delay_seconds = 1, !.batch_size = 2,
                           !.batch_delay_seconds = 2, !.progress_every = 2,
                           !.jitter_seconds = 0, !.progress_channel_id = chan]

Role == [i \in 1..NumMembers |-> i]

Init ==
    \E chan \in {0, 1, 2} :
        InitWith(SmallConfig(chan), DEFAULT_PROGRESS, Role, "", MaxTasks)

Next ==
    \/ \E t \in Slots : TaskStart(t)
    \/ \E t \in Slots : SendDelivered(t)
    \/ \E t \in Slots : SendForbidden(t)
    \/ \E t \in Slots : SendFailed(t)
    \/ \E t \in Slots : BackoffReturn(t)
    \/ \E t \in Slots, found \in BOOLEAN : AutoFetchReturn(t, found)
    \/ \E t \in Slots, sent \in BOOLEAN : AutoReportReturn(t, sent)
    \/ \E t \in Slots : DelayReturn(t)
    \/ \E t \in Slots : BatchReturn(t)
    \/ \E t \in Slots, found \in BOOLEAN : FinalFetchReturn(t, found)
    \/ \E t \in Slots, sent \in BOOLEAN : FinalReportReturn(t, sent)
    \/ StartDm
    \/ StopDm
    \/ ResetProgress
    \/ SetRole(1)
    \/ SendProgress(0)

\* every command, up to MaxTasks tasks alive at once
Spec == Init /\ [][Next]_vars

\* the same with up to SoloTasks tasks alive at once.  The bot may come up
\* with is_running already set: config.json keeps the flag of the last process
InitSolo ==
    \E running \in BOOLEAN :
        InitWith([SmallConfig(2) EXCEPT !.is_running = running],
                 DEFAULT_PROGRESS, Role, "", SoloTasks)

SpecSolo == InitSolo /\ [][Next]_vars

\* every await of dm_scheduler returns: the event loop runs a task that is
\* ready, member.send answers one way or another, a sleep ends
Fairness ==
    \A t \in 1..SoloTasks :
        /\ WF_vars(TaskStart(t))
        /\ WF_vars(SendDelivered(t) \/ SendForbidden(t) \/ SendFailed(t))
        /\ WF_vars(BackoffReturn(t))
        /\ WF_vars(\E found \in BOOLEAN : AutoFetchReturn(t, found))
        /\ WF_vars(\E sent \in BOOLEAN : AutoReportReturn(t, sent))
        /\ WF_vars(DelayReturn(t))
        /\ WF_vars(BatchReturn(t))
        /\ WF_vars(\E found \in BOOLEAN : FinalFetchReturn(t, found))
        /\ WF_vars(\E sent \in BOOLEAN : FinalReportReturn(t, sent))

SpecLive == InitSolo /\ [][Next]_vars /\ Fairness

\* start and stop only, with the history of the picked recipients
InitResume == InitWith(SmallConfig(2), DEFAULT_PROGRESS, Role, "resume", MaxTasks)

NextResume ==
    \/ \E t \in Slots : TaskStart(t)
    \/ \E t \in Slots : SendDelivered(t)
    \/ \E t \in Slots : SendForbidden(t)
    \/ \E t \in Slots : SendFailed(t)
    \/ \E t \in Slots : BackoffReturn(t)
    \/ \E t \in Slots, found \in BOOLEAN : AutoFetchReturn(t, found)
    \/ \E t \in Slots, sent \in BOOLEAN : AutoReportReturn(t, sent)
    \/ \E t \in Slots : DelayReturn(t)
    \/ \E t \in Slots : BatchReturn(t)
    \/ \E t \in Slots, found \in BOOLEAN : FinalFetchReturn(t, found)
    \/ \E t \in Slots, sent \in BOOLEAN : FinalReportReturn(t, sent)
    \/ StartDm
    \/ StopDm

SpecResume == InitResume /\ [][NextResume]_vars

\* one run at a time over PacingMembers recipients, from any persisted cursor,
\* for a range of pacing parameters, with the history of the scheduled sleeps
InitPacing ==
    \E delay \in {1, 2}, size \in {1, 2, 3}, pause \in {0, 10}, jit \in {0, 1},
       cursor \in 0..2 :
        InitWith([SmallConfig(2) EXCEPT !.dm_delay_seconds = delay,
                                        !.batch_size = size,
                                        !.batch_delay_seconds = pause,
                                        !.jitter_seconds = jit],
                 [DEFAULT_PROGRESS EXCEPT !.member_index = cursor],
                 [i \in 1..PacingMembers |-> i + 2], "pacing", SoloTasks)

NextPacing ==
    \/ \E t \in Slots : TaskStart(t)
    \/ \E t \in Slots : SendDelivered(t)
    \/ \E t \in Slots : SendForbidden(t)
    \/ \E t \in Slots : SendFailed(t)
    \/ \E t \in Slots : BackoffReturn(t)
    \/ \E t \in Slots, found \in BOOLEAN : AutoFetchReturn(t, found)
    \/ \E t \in Slots, sent \in BOOLEAN : AutoReportReturn(t, sent)
    \/ \E t \in Slots : DelayReturn(t)
    \/ \E t \in Slots : BatchReturn(t)
    \/ \E t \in Slots, found \in BOOLEAN : FinalFetchReturn(t, found)
    \/ \E t \in Slots, sent \in BOOLEAN : FinalReportReturn(t, sent)
    \/ StartDm

SpecPacing == InitPacing /\ [][NextPacing]_vars

\* commands that change the exclude list while a run is going on
InitExclude == InitWith(SmallConfig(2), DEFAULT_PROGRESS, Role, "", SoloTasks)

NextExclude ==
    \/ \E t \in Slots : TaskStart(t)
    \/ \E t \in Slots : SendDelivered(t)
    \/ \E t \in Slots : SendForbidden(t)
    \/ \E t \in Slots : SendFailed(t)
    \/ \E t \in Slots : BackoffReturn(t)
    \/ \E t \in Slots, found \in BOOLEAN : AutoFetchReturn(t, found)
    \/ \E t \in Slots, sent \in BOOLEAN : AutoReportReturn(t, sent)
    \/ \E t \in Slots : DelayReturn(t)
    \/ \E t \in Slots : BatchReturn(t)
    \/ \E t \in Slots, found \in BOOLEAN : FinalFetchReturn(t, found)
    \/ \E t \in Slots, sent \in BOOLEAN : FinalReportReturn(t, sent)
    \/ StartDm
    \/ \E user_id \in Range(role_members) : AddExclude(user_id)
    \/ \E user_id \in Range(role_members) : RemoveExclude(user_id)

SpecExclude == InitExclude /\ [][NextExclude]_vars

\* start, stop and the process dying at any point, with the history of the
\* recipients the cursor has passed
InitCrash == InitWith(SmallConfig(2), DEFAULT_PROGRESS, Role, "crash", MaxTasks)

NextCrash ==
    \/ \E t \in Slots : TaskStart(t)
    \/ \E t \in Slots : SendDelivered(t)
    \/ \E t \in Slots : SendForbidden(t)
    \/ \E t \in Slots : SendFailed(t)
    \/ \E t \in Slots : BackoffReturn(t)
    \/ \E t \in Slots, found \in BOOLEAN : AutoFetchReturn(t, found)
    \/ \E t \in Slots, sent \in BOOLEAN : AutoReportReturn(t, sent)
    \/ \E t \in Slots : DelayReturn(t)
    \/ \E t \in Slots : BatchReturn(t)
    \/ \E t \in Slots, found \in BOOLEAN : FinalFetchReturn(t, found)
    \/ \E t \in Slots, sent \in BOOLEAN : FinalReportReturn(t, sent)
    \/ StartDm
    \/ StopDm
    \/ CrashRestart

SpecCrash == InitCrash /\ [][NextCrash]_vars

\* one run at a time with start, stop and reset-progress, with the history of
\* the resets
InitReset == InitWith(SmallConfig(2), DEFAULT_PROGRESS, Role, "reset", SoloTasks)

NextReset ==
    \/ \E t \in Slots : TaskStart(t)
    \/ \E t \in Slots : SendDelivered(t)
    \/ \E t \in Slots : SendForbidden(t)
    \/ \E t \in Slots : SendFailed(t)
    \/ \E t \in Slots : BackoffReturn(t)
    \/ \E t \in Slots, found \in BOOLEAN : AutoFetchReturn(t, found)
    \/ \E t \in Slots, sent \in BOOLEAN : AutoReportReturn(t, sent)
    \/ \E t \in Slots : DelayReturn(t)
    \/ \E t \in Slots : BatchReturn(t)
    \/ \E t \in Slots, found \in BOOLEAN : FinalFetchReturn(t, found)
    \/ \E t \in Slots, sent \in BOOLEAN : FinalReportReturn(t, sent)
    \/ StartDm
    \/ StopDm
    \/ ResetProgress

SpecReset == InitReset /\ [][NextReset]_vars

\* one run at a time with start, stop and reset-progress, for a progress
\* channel that is unset, cached, or to be fetched
InitExit ==
    \E chan \in {0, 1, 2} :
        InitWith(SmallConfig(chan), DEFAULT_PROGRESS, Role, "", SoloTasks)

SpecExit == InitExit /\ [][NextReset]_vars

\* one run at a time, with the guild, the role and the templates unset, set
\* and resolvable, or set and no longer resolvable
InitSetup ==
    \E guild \in {0, 1, 2}, role \in {0, 1, 2}, tpl \in {<<>>, <<1>>} :
        InitFull([SmallConfig(2) EXCEPT !.guild_id = guild, !.target_role_id = role],
                 DEFAULT_PROGRESS, tpl, Role, "", SoloTasks)

SpecSetup == InitSetup /\ [][NextPacing]_vars

\* one run at a time, with the commands that choose how messages are delivered
InitDelivery == InitWith(SmallConfig(2), DEFAULT_PROGRESS, Role, "", SoloTasks)

NextDelivery ==
    \/ \E t \in Slots : TaskStart(t)
    \/ \E t \in Slots : SendDelivered(t)
    \/ \E t \in Slots : SendForbidden(t)
    \/ \E t \in Slots : SendFailed(t)
    \/ \E t \in Slots : BackoffReturn(t)
    \/ \E t \in Slots, found \in BOOLEAN : AutoFetchReturn(t, found)
    \/ \E t \in Slots, sent \in BOOLEAN : AutoReportReturn(t, sent)
    \/ \E t \in Slots : DelayReturn(t)
    \/ \E t \in Slots : BatchReturn(t)
    \/ \E t \in Slots, found \in BOOLEAN : FinalFetchReturn(t, found)
    \/ \E t \in Slots, sent \in BOOLEAN : FinalReportReturn(t, sent)
    \/ StartDm
    \/ \E mode \in {"dm", "channel", "both"} : SetDeliveryMode(mode)
    \/ \E channel \in CachedChannels : SetDeliveryChannel(channel)

SpecDelivery == InitDelivery /\ [][NextDelivery]_vars

\* a fresh installation (the default configuration, no template) and the
\* commands that set the tunable parameters, with integer arguments -1..ArgMax
InitConfig == InitFull(DEFAULT_CONFIG, DEFAULT_PROGRESS, <<>>, Role, "", SoloTasks)

NextConfig ==
    \/ \E seconds \in -1..ArgMax : SetDelay(seconds)
    \/ \E size \in -1..ArgMax, delay \in -1..ArgMax, given \in BOOLEAN :
          SetBatch(size, delay, given)
    \/ \E seconds \in -1..ArgMax : SetJitter(seconds)
    \/ \E count \in -1..ArgMax : SetProgressInterval(count)
    \/ \E user_id \in 1..ArgMax : AddExclude(user_id)
    \/ \E user_id \in 1..ArgMax : RemoveExclude(user_id)

SpecConfig == InitConfig /\ [][NextConfig]_vars

\* the progress embed for any persisted cursor and any pacing the setters
\* accept, over EstimateMembers recipients
InitEstimate ==
    \E cursor \in 0..(EstimateMembers + 1) :
        InitWith([DEFAULT_CONFIG EXCEPT !.guild_id = 1, !.target_role_id = 1],
                 [DEFAULT_PROGRESS EXCEPT !.member_index = cursor],
                 [i \in 1..EstimateMembers |-> i + 2], "", SoloTasks)

NextEstimate ==
    \/ \E seconds \in {0, 1, 5} : SetDelay(seconds)
    \/ \E size \in {0, 1, 7, 25}, delay \in {-1, 0, 60}, given \in BOOLEAN :
          SetBatch(size, delay, given)
    \/ \E channel \in {0} \cup CachedChannels : SendProgress(channel)

SpecEstimate == InitEstimate /\ [][NextEstimate]_vars

\* ------------------------------------------------------------------ claims
InLoop(t) == task[t].pc \in InLoopPcs
Delivering(t) == task[t].pc \in {"send", "backoff"}
\* the recipient a task has in hand
Target(tk) == tk.members[tk.member_index + 1]
\* the step makes task t pick its next recipient
Picks(t) == ~Delivering(t) /\ task'[t].pc = "send"
\* the step makes task t call member.send
Sends(t) == task[t].pc # "send" /\ task'[t].pc = "send"
\* the step ends the processing of the recipient task t has in hand
Completes(t) == Delivering(t) /\ task'[t].pc \notin {"send", "backoff"}

\* C1: at most one dm_scheduler task is inside its main loop at any time.
C1_AtMostOneLoop == Cardinality({ t \in Slots : InLoop(t) }) <= 1

\* C2: after a start that follows a stop at cursor k (no reset-progress, no
\* set-target-role, same recipient sequence), no recipient below index k is
\* picked and no recipient is picked twice.
C2_ResumeOnce ==
    resume.started =>
        LET seq == FilterSeq(role_members, config.excluded_user_ids)
        IN \A i \in 1..Len(seq) :
              /\ resume.began[seq[i]] <= 1
              /\ i - 1 < resume.k => resume.began[seq[i]] = 0

\* C3: a start command issued while is_running is set is answered with
\* "DM process already running" and changes neither config, progress, the
\* stop flag, the files nor the tasks.
C3_StartRejected ==
    [][(config.is_running /\ StartDm) =>
          /\ reply' = "DM process already running"
          /\ UNCHANGED <<config, progress, stop_event, disk, task>>]_vars

C3_Witness ==
    /\ reply = "DM process already running"
    /\ config.is_running
    /\ \E t \in Slots : InLoop(t) /\ task[t].member_index > 0

\* C4: while a run is going on, member_index and total_sent decrease in no
\* step other than reset-progress.
C4_Monotonic ==
    [][((\E t \in Slots : task[t].pc \in LivePcs)
          /\ (\/ progress'.member_index < progress.member_index
              \/ progress'.total_sent < progress.total_sent))
        => ResetProgress]_vars

\* C5: a loop that was active when a stop command was accepted picks no
\* further recipient, whatever commands follow the stop.
C5_StopIsFinal ==
    [][\A t \in Slots : task[t].stop_requested => ~Picks(t)]_vars

\* C6: no recipient gets more than 3 delivery attempts from one run; a
\* recipient whose attempts all failed transiently (its processing ends after
\* a backoff, not after a send that returned) is given up after exactly 3
\* attempts, in a step that moves the loop's cursor and the stored cursor to the
\* next index and leaves total_sent alone.
C6_RetryBound ==
    /\ [](\A t \in Slots : task[t].nsend <= 3)
    /\ [][\A t \in Slots :
            (Completes(t) /\ task[t].pc = "backoff") =>
                /\ task[t].nsend = 3
                /\ task'[t].member_index = task[t].member_index + 1
                /\ progress'.member_index = task[t].member_index + 1
                /\ progress'.total_sent = progress.total_sent]_vars

C6_Witness ==
    \E t \in Slots :
        /\ task[t].pc = "backoff"
        /\ task[t].attempt = 3
        /\ task[t].nsend = 3
        /\ task[t].member_index > 0

\* C7: a backoff sleep happens only between two attempts: after attempt 1
\* (2^1 seconds plus jitter) and after attempt 2 (2^2 seconds plus jitter), with
\* jitter in 0..jitter_seconds.
C7_BackoffBetweenAttempts ==
    \A t \in Slots :
        task[t].pc = "backoff" =>
            /\ task[t].attempt \in {1, 2}
            /\ task[t].nbackoff <= 2
            /\ task[t].sleep - Pow2(task[t].attempt) \in 0..config.jitter_seconds

\* C8: with the progress channel in reach, a delivery that brings total_sent to
\* a positive multiple of progress_every makes the loop post an automatic
\* report for that total.
C8_ReportAtEveryMultiple ==
    [][\A t \in Slots :
          (/\ task[t].pc = "send"
           /\ task'[t].pc # "send"
           /\ progress'.total_sent = progress.total_sent + 1
           /\ progress'.total_sent % config.progress_every = 0
           /\ config.progress_channel_id \in CachedChannels)
          => task'[t].pc = "auto_report"]_vars

\* C9: the loop never calls member.send for a recipient whose id is in
\* excluded_user_ids.
C9_NeverSendToExcluded ==
    [][\A t \in Slots :
          Sends(t) => Target(task'[t]) \notin Range(config'.excluded_user_ids)]_vars

\* the pacing delay scheduled for m processed recipients
PacingDelay(m, cfg) ==
    m * cfg.dm_delay_seconds + (m \div cfg.batch_size) * cfg.batch_delay_seconds

\* C10: the per-message and batch sleeps a run has scheduled add up to
\* m * dm_delay_seconds + floor(m / batch_size) * batch_delay_seconds, m being
\* the number of recipients it has processed (the batch pause of the m-th
\* recipient is scheduled when its per-message sleep is over).
C10_BatchPacing ==
    \A t \in Slots :
        LET tk == task[t]
            m == tk.member_index - tk.start_index
        IN /\ tk.pc \in {"send", "backoff", "batch"} =>
                 tk.paced = PacingDelay(m, config)
           /\ tk.pc = "delay" =>
                 /\ tk.paced = PacingDelay(m - 1, config) + config.dm_delay_seconds
                 /\ BatchFull(tk, config) <=> m % config.batch_size = 0

C10_Witness ==
    \E t \in Slots :
        /\ task[t].pc = "delay"
        /\ task[t].member_index - task[t].start_index = 5
        /\ config.batch_size = 2
        /\ config.dm_delay_seconds = 1
        /\ config.batch_delay_seconds = 10
        /\ task[t].paced = 25

\* an entry precondition of dm_scheduler fails
SetupFails ==
    \/ config.guild_id \notin KnownGuilds
    \/ config.target_role_id \notin KnownRoles
    \/ templates = <<>>

\* C12: a run whose entry preconditions fail ends with is_running cleared and
\* the progress record unchanged.
C12_SetupAbort ==
    [][\A t \in Slots :
          (task[t].pc = "created" /\ task'[t].pc = "idle" /\ SetupFails)
          => ~config'.is_running /\ progress' = progress]_vars

\* C13: from an accepted reset-progress until the next accepted start,
\* is_running is cleared, member_index and total_sent are 0 and the loop picks
\* no further recipient.
C13_ResetStaysZero ==
    /\ [](resume.reset =>
            /\ ~config.is_running
            /\ progress.member_index = 0
            /\ progress.total_sent = 0)
    /\ [][resume.reset => \A t \in Slots : ~Picks(t)]_vars

\* C14: in every state the progress file holds the in-memory progress record,
\* and after the process died and came back no task calls member.send for a
\* recipient the cursor had passed before.
C14_CrashSafeCursor ==
    /\ [](disk.progress = progress)
    /\ [][\A t \in Slots :
            Sends(t) => Target(task'[t]) \notin resume.sealed]_vars

\* C15: the step that ends a recipient's processing moves the loop's cursor and
\* the stored cursor to the next index and adds 1 to total_sent exactly when it
\* is a delivery; a delivery and a Forbidden answer both end the processing at
\* once; total_sent grows in no other step.
C15_Accounting ==
    [][/\ \A t \in Slots :
            /\ Completes(t) =>
                  /\ task'[t].member_index = task[t].member_index + 1
                  /\ progress'.member_index = task[t].member_index + 1
                  /\ progress'.total_sent =
                        progress.total_sent + (IF SendDelivered(t) THEN 1 ELSE 0)
            /\ SendDelivered(t) => Completes(t)
            /\ SendForbidden(t) => Completes(t)
       /\ progress'.total_sent > progress.total_sent =>
              \E t \in Slots : SendDelivered(t)]_vars

C15_Witness ==
    \E t \in Slots :
        /\ task[t].pc = "delay"
        /\ task[t].member_index = 2
        /\ progress.member_index = 2
        /\ progress.total_sent = 1

\* C16: the loop hands an automatic report to the channel only when total_sent
\* is positive, a multiple of progress_every and different from
\* last_progress_sent.
C16_AutoReportTrigger ==
    [][\A t \in Slots :
          (task[t].pc # "auto_report" /\ task'[t].pc = "auto_report") =>
              /\ progress'.total_sent > 0
              /\ progress'.total_sent % config'.progress_every = 0
              /\ progress'.total_sent # progress'.last_progress_sent]_vars

\* the step takes task t out of its main loop
ExitsLoop(t) ==
    /\ \/ task[t].pc \in {"delay", "batch"}
       \/ task[t].pc = "created" /\ ~SetupFails
    /\ task'[t].pc \in {"idle", "final_fetch", "final_report"}

\* C17: the step that leaves the main loop clears is_running and writes the
\* config file; once the progress channel is resolved (from the cache in that
\* step, or by fetch_channel) the final report is handed to it exactly when
\* total_sent differs from last_progress_sent, and it shows that total; when
\* the report is sent last_progress_sent equals total_sent.
C17_RunExit ==
    [][\A t \in Slots :
          /\ ExitsLoop(t) =>
                /\ ~config'.is_running
                /\ disk'.config = config'
                /\ config.progress_channel_id \in CachedChannels =>
                      (task'[t].pc = "final_report"
                          <=> progress.total_sent # progress.last_progress_sent)
                /\ config.progress_channel_id = 0 => task'[t].pc = "idle"
          /\ FinalFetchReturn(t, TRUE) =>
                (task'[t].pc = "final_report"
                    <=> progress.total_sent # progress.last_progress_sent)
          /\ (task[t].pc # "final_report" /\ task'[t].pc = "final_report") =>
                /\ posted' # <<>>
                /\ posted'[1].total_sent = progress'.total_sent
          /\ FinalReportReturn(t, TRUE) =>
                /\ progress'.last_progress_sent = progress'.total_sent
                /\ disk'.progress = progress']_vars

C17_Witness ==
    \E t \in Slots :
        /\ task[t].pc = "final_report"
        /\ ~config.is_running
        /\ config.progress_channel_id \in CachedChannels
        /\ progress.total_sent = 1
        /\ progress.last_progress_sent = 0
        /\ posted # <<>>

\* C18: every posted progress embed shows remaining = max(0, n - member_index),
\* n being the number of members of the role that are neither bots nor
\* excluded.
C18_RemainingCount ==
    posted # <<>> =>
        LET n == Len(FilterSeq(role_members, config.excluded_user_ids))
        IN posted[1].remaining =
              IF n - progress.member_index > 0 THEN n - progress.member_index ELSE 0

\* C19: a task that is in its main loop eventually is out of it with
\* is_running cleared, whatever commands are issued meanwhile.
C19_RunTerminates ==
    \A t \in 1..SoloTasks :
        (task[t].pc \in InLoopPcs)
            ~> (task[t].pc \notin InLoopPcs /\ ~config.is_running)

C19_Witness ==
    \E t \in Slots :
        /\ task[t].pc = "final_fetch"
        /\ ~config.is_running
        /\ progress.member_index = Len(FilterSeq(role_members, <<>>))
        /\ ~stop_event

\* C20: is_running is never set while no dm_scheduler task exists (a state in
\* which startdm answers "DM process already running" and nothing is running),
\* in particular not after the process died during a run and was started again.
C20_RestartRecovery ==
    config.is_running => \E t \in Slots : task[t].pc \in LivePcs

\* C21: a delivery attempt posts to the delivery channel when delivery_mode is
\* "channel" and sends a direct message to the member when it is "dm" or unset.
C21_DeliveryMode ==
    [][\A t \in Slots :
          Sends(t) =>
              task'[t].via = IF config'.delivery_mode = "channel"
                             THEN "channel.send" ELSE "member.send"]_vars

\* C22: dm_delay_seconds >= 1, batch_size >= 1, batch_delay_seconds >= 0,
\* jitter_seconds >= 0, progress_every >= 1 and no id occurs twice in
\* excluded_user_ids, in memory and in the config file.
C22_ConfigWellFormed ==
    \A cfg \in {config, disk.config} :
        /\ cfg.dm_delay_seconds >= 1
        /\ cfg.batch_size >= 1
        /\ cfg.batch_delay_seconds >= 0
        /\ cfg.jitter_seconds >= 0
        /\ cfg.progress_every >= 1
        /\ \A i, j \in 1..Len(cfg.excluded_user_ids) :
              cfg.excluded_user_ids[i] = cfg.excluded_user_ids[j] => i = j

C22_Witness ==
    /\ reply = "User already excluded."
    /\ Len(config.excluded_user_ids) = 2
    /\ config.dm_delay_seconds = 1
    /\ config.batch_size = 1
    /\ config.batch_delay_seconds = 0
    /\ config.jitter_seconds = 0
    /\ config.progress_every = 1

\* the number of seconds a formatted duration stands for
SecondsOf(str) ==
    LET w(unit) == IF unit = "h" THEN 3600 ELSE IF unit = "m" THEN 60 ELSE 1
        part(i) == IF i <= Len(str) THEN str[i].n * w(str[i].unit) ELSE 0
    IN part(1) + part(2) + part(3)

\* C11: every posted progress embed has est_seconds = remaining *
\* dm_delay_seconds + floor(remaining / batch_size) * batch_delay_seconds, and
\* the duration it shows stands for that many seconds.
C11_EstimatedTime ==
    posted # <<>> =>
        LET e == posted[1]
        IN /\ e.remaining >= 0
           /\ e.est_seconds = PacingDelay(e.remaining, config)
           /\ SecondsOf(e.est_str) = e.est_seconds

C11_Witness ==
    /\ posted # <<>>
    /\ posted[1].remaining = 30
    /\ config.batch_size = 25 /\ config.dm_delay_seconds = 5
    /\ config.batch_delay_seconds = 60
    /\ posted[1].est_seconds = 210
    /\ posted[1].est_str = <<[n |-> 3, unit |-> "m"], [n |-> 30, unit |-> "s"]>>
====
